---------------------------- MODULE Spec2Model ----------------------------
(***************************************************************************)
(* Model of the APRS operating mode controller of OpenRTX                  *)
(* (src/openrtx/src/rtx/OpMode_APRS.cpp): the OFF/RX/TX transition logic,  *)
(* the squelch evaluator with hysteresis, the use of the shared audio path *)
(* arbiter and the lifecycle of the queue of received APRS packets.        *)
(*                                                                         *)
(* enable(), update() and disable() are one action each.  An action        *)
(* records in `log` the collaborator calls the handler issued, in order,   *)
(* each with the audio paths held right after the call, so that properties *)
(* about points inside one update() are state properties of `log`.         *)
(***************************************************************************)
EXTENDS Integers, Sequences, FiniteSets

\* ------------------------------------------------------------------ bounds
\* Audio path handles the arbiter can hand out: 1..MaxHandle.
MaxHandle == 2
\* Packet slots of the heap: malloc() fails once all of them are live.
HeapSlots == 10
\* Signal strengths fed to update(): threshold - RssiSpread .. threshold + RssiSpread.
RssiSpread == 2

\* ------------------------------------------------------- program constants
NULL == 0
\* Number of placeholder packets of the diagnostic batch.
NumPkts == 10
\* Lowest derived threshold, scale and divisor of the squelch formula.
SqlBase == -127
SqlScale == 66
SqlDiv == 15
\* Highest squelch level of the configuration.
MaxSqlLevel == 15

OFF == "OFF"
RX == "RX"
TX == "TX"
OpStatus == {OFF, RX, TX}

\* Squelch levels fed to update() in the controller specifications.
SqlLevels == {0, MaxSqlLevel}

Handles == 1..MaxHandle
\* Result of a refused audioPath_request(): a path id that is not positive.
FailCodes == {0}
PathIds == FailCodes \cup Handles
Slots == 1..HeapSlots

VARIABLES
    status,       \* the shared rtxStatus_t record
    rfSqlOpen,    \* OpMode_APRS::rfSqlOpen
    sqlOpen,      \* OpMode_APRS::sqlOpen
    enterRx,      \* OpMode_APRS::enterRx
    makePkts,     \* OpMode_APRS::makePkts
    active,       \* enable() has been called and disable() not since
    rxAudioPath,  \* OpMode_APRS::rxAudioPath
    txAudioPath,  \* OpMode_APRS::txAudioPath
    paths,        \* audio arbiter: handle -> the route it names, or NoRoute
    rf,           \* RF stage: the last command, disableRtx | enableRx | enableTx
    leds,         \* [green, red]
    heap,         \* packet slots: state, links, address chain, release count
    lastCall,     \* the operation that ran last
    ptt,          \* platform_getPttStatus(): the PTT line
    rssi,         \* rtx_getRssi(): the signal strength
    dsq,          \* radio_checkRxDigitalSquelch(): the tone squelch signal
    log,          \* the collaborator calls of the last operation, in order
    mem,          \* memory events of the last operation
    sq            \* squelch formula applied to a pair of levels

vars == <<status, rfSqlOpen, sqlOpen, enterRx, makePkts, active, rxAudioPath, txAudioPath,
          paths, rf, leds, heap, lastCall, ptt, rssi, dsq, log, mem, sq>>

\* ------------------------------------------------------- squelch evaluator
\* C integer division truncates toward zero.
CDiv(a, b) == IF a >= 0 THEN a \div b ELSE -((-a) \div b)

\* Faulty variant: the product is computed in 8 bits.
Squelch_Wrap8(level) == SqlBase + CDiv((level * SqlScale) % 256, SqlDiv)

\* rssi_t squelch = -127 + (status->sqlLevel * 66) / 15;
Squelch(level) == SqlBase + CDiv(level * SqlScale, SqlDiv)

\* Faulty variant: the flag follows the threshold itself, without the dead band.
Hysteresis_NoBand(open, level, squelch) ==
    LET o1 == IF (open = FALSE) /\ (level > squelch) THEN TRUE ELSE open
    IN  IF (o1 = TRUE) /\ (level < squelch) THEN FALSE ELSE o1

\* The two hysteresis tests, in the order of the code.
Hysteresis(open, level, squelch) ==
    LET o1 == IF (open = FALSE) /\ (level > squelch + 1) THEN TRUE ELSE open
    IN  IF (o1 = TRUE) /\ (level < squelch - 1) THEN FALSE ELSE o1

\* ------------------------------------------------------ audio path arbiter
\* audioPath_request(SOURCE_RTX, SINK_SPK, PRIO_RX)
RxRoute == [source |-> "RTX", sink |-> "SPK", prio |-> "RX"]
\* audioPath_request(SOURCE_MIC, SINK_RTX, PRIO_TX)
TxRoute == [source |-> "MIC", sink |-> "RTX", prio |-> "TX"]
\* A handle that names no path, and the route of a release that released nothing.
NoRoute == [source |-> "none", sink |-> "none", prio |-> "none"]

\* The controller holds a granted, not yet released path of that route.
RxHeld(p) == \E h \in Handles : p[h] = RxRoute
TxHeld(p) == \E h \in Handles : p[h] = TxRoute

Event(op, dir, h, ok, p) ==
    [op |-> op, dir |-> dir, h |-> h, ok |-> ok, rx |-> RxHeld(p), tx |-> TxHeld(p)]

\* audioPath_request(): `dir` is the route asked for, `res` is the arbiter's answer, a fail code or the handle
\* it grants; granting a handle that is not free is not an answer it can give.
Request(c, dir, res) ==
    IF res \in Handles
    THEN LET p == [c.paths EXCEPT ![res] = dir]
         IN  [c EXCEPT !.paths = p,
                       !.bad = c.bad \/ (c.paths[res] # NoRoute),
                       !.log = Append(c.log, Event("request", dir, res, TRUE, p))]
    ELSE [c EXCEPT !.log = Append(c.log, Event("request", dir, res, FALSE, c.paths))]

\* audioPath_release(): frees the path the handle names; a handle that names no
\* held path releases nothing.
Release(c, h) ==
    IF h \in Handles /\ c.paths[h] # NoRoute
    THEN LET p == [c.paths EXCEPT ![h] = NoRoute]
         IN  [c EXCEPT !.paths = p,
                       !.log = Append(c.log, Event("release", c.paths[h], h, TRUE, p))]
    ELSE [c EXCEPT !.log = Append(c.log, Event("release", NoRoute, h, FALSE, c.paths))]

\* radio_disableRtx(), radio_enableRx(), radio_enableTx()
Radio(c, cmd) ==
    [c EXCEPT !.rf = cmd,
              !.log = Append(c.log, [Event("radio", NoRoute, NULL, TRUE, c.paths)
                                       EXCEPT !.op = cmd])]


\* ------------------------------------------------------------ packet queue
\* A slot of the heap no packet has been allocated in yet.
FreshPkt == [st |-> "unalloc", prev |-> NULL, next |-> NULL, addrs |-> 0]

Lowest(S) == CHOOSE x \in S : \A y \in S : x <= y

\* malloc(sizeof(aprsPacket_t)): the slot of the new packet, the lowest one that
\* holds no live packet; NULL when the heap is exhausted.
Malloc(h) ==
    LET notLive == {s \in Slots : h[s].st # "live"}
    IN  IF notLive = {} THEN NULL ELSE Lowest(notLive)

\* Faulty variant: pkt->prev is left as malloc() returned it.
NewPkt_StalePrev == [st |-> "live", prev |-> 1, next |-> NULL, addrs |-> 2]

\* The packet update() builds before inserting it: both links NULL, a chain of two
\* address records (destination, source).
NewPkt == [st |-> "live", prev |-> NULL, next |-> NULL, addrs |-> 2]

\* aprsPktsInsert(head, pkt): puts pkt in front of head and returns the new head.
aprsPktsInsert(h, head, pkt) ==
    IF head = NULL
    THEN [heap |-> h, head |-> pkt]
    ELSE [heap |-> [[h EXCEPT ![pkt].next = head] EXCEPT ![head].prev = pkt],
          head |-> pkt]

\* aprsPktFree(pkt): releases the address chain, the info text and the packet.
aprsPktFree(h, pkt) == [h EXCEPT ![pkt].st = "freed", ![pkt].addrs = 0]

\* The loop of update() that builds and inserts the packets i .. NumPkts - 1.
\* Ends early, with ok = FALSE, when malloc() returns NULL: the code writes
\* through the pointer without testing it.  uaf: an insertion wrote into a
\* released packet.
RECURSIVE MakePkts(_, _, _, _)
MakePkts(h, head, i, uaf) ==
    IF i >= NumPkts
    THEN [heap |-> h, head |-> head, ok |-> TRUE, uaf |-> uaf, made |-> i]
    ELSE IF Malloc(h) = NULL
    THEN [heap |-> h, head |-> head, ok |-> FALSE, uaf |-> uaf, made |-> i]
    ELSE MakePkts(aprsPktsInsert([h EXCEPT ![Malloc(h)] = NewPkt], head, Malloc(h)).heap,
                  Malloc(h), i + 1,
                  uaf \/ (head # NULL /\ head # Malloc(h) /\ h[head].st # "live"))

\* Faulty variant: the block does not clear makePkts.
PktLogic_KeepFlag(st, h, mk) ==
    IF mk
    THEN LET b == MakePkts(h, st.aprsPkts, 0, FALSE)
         IN  [status |-> [st EXCEPT !.aprsRecv = NumPkts, !.aprsSaved = NumPkts,
                                    !.aprsPkts = b.head],
              heap |-> b.heap, makePkts |-> mk, ok |-> b.ok,
              mem |-> [uaf |-> b.uaf, dfree |-> FALSE, made |-> b.made]]
    ELSE [status |-> st, heap |-> h, makePkts |-> mk, ok |-> TRUE,
          mem |-> [uaf |-> FALSE, dfree |-> FALSE, made |-> 0]]

\* The test packet block of update(), lines 85-128.
PktLogic(st, h, mk) ==
    IF mk
    THEN LET b == MakePkts(h, st.aprsPkts, 0, FALSE)
         IN  [status |-> [st EXCEPT !.aprsRecv = NumPkts, !.aprsSaved = NumPkts,
                                    !.aprsPkts = b.head],
              heap |-> b.heap, makePkts |-> FALSE, ok |-> b.ok,
              mem |-> [uaf |-> b.uaf, dfree |-> FALSE, made |-> b.made]]
    ELSE [status |-> st, heap |-> h, makePkts |-> mk, ok |-> TRUE,
          mem |-> [uaf |-> FALSE, dfree |-> FALSE, made |-> 0]]

\* What reading pkt->next gives once aprsPktFree(pkt) has released pkt: the link
\* still stored in the released block, or NULL when releasing cleared it.
ReadFreedNext(h, pkt, rd) == IF rd = "intact" THEN h[pkt].next ELSE NULL

\* for (pkt = status.aprsPkts; pkt; pkt = pkt->next) aprsPktFree(pkt);
\* `seen` are the packets this pass visited: reaching one again means the loop
\* runs around a cycle and never ends.  dfree: a packet was released twice.
RECURSIVE Teardown(_, _, _, _, _)
Teardown(h, pkt, rd, seen, dfree) ==
    IF pkt = NULL
    THEN [heap |-> h, hung |-> FALSE, dfree |-> dfree, visited |-> seen]
    ELSE IF pkt \in seen
    THEN [heap |-> h, hung |-> TRUE, dfree |-> TRUE, visited |-> seen]
    ELSE Teardown(aprsPktFree(h, pkt), ReadFreedNext(h, pkt, rd), rd,
                  seen \cup {pkt}, dfree \/ h[pkt].st # "live")

\* ---------------------------------------------------------- update(): radio
\* Audio control, lines 154-164.
AudioControl(c, rfSql, toneSql, in) ==
    LET c1 == IF (c.sqlOpen = FALSE) /\ (rfSql \/ toneSql)
              THEN LET r == Request(c, RxRoute, in.rxRes)
                   IN  [r EXCEPT !.rxAudioPath = in.rxRes,
                                 !.sqlOpen = IF in.rxRes > 0 THEN TRUE ELSE r.sqlOpen]
              ELSE c
    IN  IF (c1.sqlOpen = TRUE) /\ (rfSql = FALSE) /\ (toneSql = FALSE)
        THEN [Release(c1, c1.rxAudioPath) EXCEPT !.sqlOpen = FALSE]
        ELSE c1

\* Faulty variant: the tone squelch opens only while the RF squelch is open too.
SquelchLogic_ToneNeedsRf(c, in) ==
    LET squelch == Squelch(in.sqlLevel)
        open    == Hysteresis(c.rfSqlOpen, in.rssi, squelch)
        rfSql   == (in.rxToneEn = 0) /\ (open = TRUE)
        toneSql == (in.rxToneEn = 1) /\ in.dsq1 /\ (open = TRUE)
    IN  AudioControl([c EXCEPT !.rfSqlOpen = open], rfSql, toneSql, in)

\* RF squelch mechanism and audio control, lines 136-164.
SquelchLogic(c, in) ==
    LET squelch == Squelch(in.sqlLevel)
        open    == Hysteresis(c.rfSqlOpen, in.rssi, squelch)
        rfSql   == (in.rxToneEn = 0) /\ (open = TRUE)
        toneSql == (in.rxToneEn = 1) /\ in.dsq1
    IN  AudioControl([c EXCEPT !.rfSqlOpen = open], rfSql, toneSql, in)

\* Faulty variant: RF receive is activated without the reset before it.
EnterRx_NoReset(c) ==
    [Radio(c, "enableRx") EXCEPT !.opStatus = RX, !.enterRx = FALSE]

\* Entering RX from OFF, lines 165-171.
EnterRx(c) ==
    [Radio(Radio(c, "disableRtx"), "enableRx") EXCEPT !.opStatus = RX, !.enterRx = FALSE]

\* RX logic, lines 135-171.
RxLogic(c, in) ==
    IF c.opStatus = RX THEN SquelchLogic(c, in)
    ELSE IF (c.opStatus = OFF) /\ c.enterRx THEN EnterRx(c)
    ELSE c

\* Faulty variant: the RX audio path is not released on the way to TX.
EnterTx_KeepRx(c, in) ==
    LET c1 == Radio(c, "disableRtx")
        c2 == [Request(c1, TxRoute, in.txRes) EXCEPT !.txAudioPath = in.txRes]
    IN  [Radio(c2, "enableTx") EXCEPT !.opStatus = TX]

\* Entering TX, lines 176-182.
EnterTx(c, in) ==
    LET c1 == Radio(Release(c, c.rxAudioPath), "disableRtx")
        c2 == [Request(c1, TxRoute, in.txRes) EXCEPT !.txAudioPath = in.txRes]
    IN  [Radio(c2, "enableTx") EXCEPT !.opStatus = TX]

\* Faulty variant: leaving TX does not ask for RX to be entered again.
ExitTx_NoReentry(c) ==
    [Radio(Release(c, c.txAudioPath), "disableRtx") EXCEPT
        !.opStatus = OFF, !.sqlOpen = FALSE]

\* Leaving TX, lines 186-191.
ExitTx(c) ==
    [Radio(Release(c, c.txAudioPath), "disableRtx") EXCEPT
        !.opStatus = OFF, !.enterRx = TRUE, !.sqlOpen = FALSE]

\* Faulty variant: TX is entered without looking at the transmit inhibit.
TxLogic_IgnoreInhibit(c, in) ==
    LET c1 == IF in.ptt1 /\ (c.opStatus # TX)
              THEN EnterTx(c, in) ELSE c
    IN  IF ~in.ptt2 /\ (c1.opStatus = TX) THEN ExitTx(c1) ELSE c1

\* Faulty variant: an open squelch keeps the controller from entering TX.
TxLogic_SquelchGated(c, in) ==
    LET c1 == IF in.ptt1 /\ (c.opStatus # TX) /\ (in.txDisable = 0) /\ ~c.sqlOpen
              THEN EnterTx(c, in) ELSE c
    IN  IF ~in.ptt2 /\ (c1.opStatus = TX) THEN ExitTx(c1) ELSE c1

\* TX logic, lines 173-192: platform_getPttStatus() is sampled twice.
TxLogic(c, in) ==
    LET c1 == IF in.ptt1 /\ (c.opStatus # TX) /\ (in.txDisable = 0)
              THEN EnterTx(c, in) ELSE c
    IN  IF ~in.ptt2 /\ (c1.opStatus = TX) THEN ExitTx(c1) ELSE c1

\* Led control logic, lines 194-220.
LedLogic(c, in) ==
    [c EXCEPT !.leds =
        IF c.opStatus = RX
        THEN IF in.dsq2 THEN [green |-> TRUE, red |-> TRUE]
             ELSE IF c.rfSqlOpen THEN [green |-> TRUE, red |-> FALSE]
             ELSE [green |-> FALSE, red |-> FALSE]
        ELSE IF c.opStatus = TX THEN [green |-> FALSE, red |-> TRUE]
        ELSE [green |-> FALSE, red |-> FALSE]]

\* The radio part of update(), lines 135-220.
RadioLogic(c, in) == LedLogic(TxLogic(RxLogic(c, in), in), in)

\* ------------------------------------------------------------------- state
LedsOff == [green |-> FALSE, red |-> FALSE]
NoMem == [uaf |-> FALSE, dfree |-> FALSE, made |-> 0]
NoSq == [a |-> 0, b |-> 0, ta |-> NULL, tb |-> NULL, done |-> FALSE]

\* Signal strengths the RF stage reports while the squelch level is l: around
\* the threshold of l.
RssiValues(l) == (Squelch(l) - RssiSpread)..(Squelch(l) + RssiSpread)

\* Values an uninitialised path id may hold: one that names no path, one that
\* names a path.
UninitIds == {0, 1}

\* The controller's members and its collaborators as one record, threaded
\* through the steps of a handler.
Ctl == [opStatus |-> status.opStatus, rfSqlOpen |-> rfSqlOpen, sqlOpen |-> sqlOpen,
        enterRx |-> enterRx, rxAudioPath |-> rxAudioPath, txAudioPath |-> txAudioPath,
        paths |-> paths, rf |-> rf, leds |-> leds, log |-> <<>>, bad |-> FALSE]

\* State after construction: the constructor sets rfSqlOpen, sqlOpen and enterRx
\* and leaves makePkts, rxAudioPath and txAudioPath uninitialised.
InitCtl ==
    /\ status = [opStatus |-> OFF, sqlLevel |-> 0, rxToneEn |-> 0, txDisable |-> 0,
                 aprsRecv |-> 0, aprsSaved |-> 0, aprsPkts |-> NULL]
    /\ rfSqlOpen = FALSE
    /\ sqlOpen = FALSE
    /\ enterRx = TRUE
    /\ makePkts \in BOOLEAN
    /\ active = FALSE
    /\ rxAudioPath \in UninitIds
    /\ txAudioPath \in UninitIds
    /\ paths = [h \in Handles |-> NoRoute]
    /\ rf = "disableRtx"
    /\ leds = LedsOff
    /\ heap = [s \in Slots |-> FreshPkt]
    /\ lastCall = "init"
    /\ ptt = FALSE
    /\ rssi \in RssiValues(0)
    /\ dsq = FALSE
    /\ log = <<>>
    /\ mem = NoMem

Init == InitCtl /\ sq = NoSq

ctlVars == <<rfSqlOpen, sqlOpen, enterRx, makePkts, active, rxAudioPath, txAudioPath,
             paths, rf, leds, heap, sq>>

\* `log` and `mem` describe the call that has just returned: a change of the
\* environment ends that moment.
Forget == lastCall' = "env" /\ log' = <<>> /\ mem' = NoMem

\* -------------------------------------------------------------- environment
\* The operator presses or releases the PTT key.
PttChange ==
    /\ ptt' = ~ptt
    /\ Forget
    /\ UNCHANGED <<status, rssi, dsq, ctlVars>>

\* The received signal strength changes.
RssiChange ==
    /\ \E v \in RssiValues(status.sqlLevel) \ {rssi} : rssi' = v
    /\ Forget
    /\ UNCHANGED <<status, ptt, dsq, ctlVars>>

\* The RF stage detects, or loses, the squelch tone.
DsqChange ==
    /\ dsq' = ~dsq
    /\ Forget
    /\ UNCHANGED <<status, ptt, rssi, ctlVars>>

\* Another component changes the squelch level in the shared status record; the
\* signal strength is then one of those around the new threshold.
SetSqlLevel ==
    /\ \E l \in SqlLevels \ {status.sqlLevel} :
          /\ status' = [status EXCEPT !.sqlLevel = l]
          /\ rssi' \in RssiValues(l)
    /\ Forget
    /\ UNCHANGED <<ptt, dsq, ctlVars>>

\* Another component switches tone squelch on or off in the status record.
SetRxToneEn ==
    /\ status' = [status EXCEPT !.rxToneEn = 1 - status.rxToneEn]
    /\ Forget
    /\ UNCHANGED <<ptt, rssi, dsq, ctlVars>>

\* Another component sets or clears the transmit inhibit in the status record.
SetTxDisable ==
    /\ status' = [status EXCEPT !.txDisable = 1 - status.txDisable]
    /\ Forget
    /\ UNCHANGED <<ptt, rssi, dsq, ctlVars>>

\* ---------------------------------------------------------- rxSquelchOpen()
\* bool OpMode_APRS::rxSquelchOpen() { return sqlOpen; }  It writes nothing.
rxSquelchOpen == sqlOpen

\* Faulty variant: enable() does not set the enter-RX flag.
Enable_NoEnterRx ==
    /\ rfSqlOpen' = FALSE
    /\ sqlOpen' = FALSE
    /\ makePkts' = TRUE
    /\ active' = TRUE
    /\ lastCall' = "enable"
    /\ log' = <<>>
    /\ mem' = NoMem
    /\ UNCHANGED <<status, enterRx, rxAudioPath, txAudioPath, paths, rf, leds, heap,
                   ptt, rssi, dsq, sq>>

\* ----------------------------------------------------------------- enable()
Enable ==
    /\ rfSqlOpen' = FALSE
    /\ sqlOpen' = FALSE
    /\ enterRx' = TRUE
    /\ makePkts' = TRUE
    /\ active' = TRUE
    /\ lastCall' = "enable"
    /\ log' = <<>>
    /\ mem' = NoMem
    /\ UNCHANGED <<status, rxAudioPath, txAudioPath, paths, rf, leds, heap, ptt, rssi,
                   dsq, sq>>

\* ---------------------------------------------------------------- disable()
\* A teardown loop that runs around a cycle of packets never ends: the call does
\* not return and the action has no next state.
Disable ==
    /\ \E rd \in {"intact", "null"} :
        \E td \in {IF status.aprsPkts # NULL
                   THEN Teardown(heap, status.aprsPkts, rd, {}, FALSE)
                   ELSE [heap |-> heap, hung |-> FALSE, dfree |-> FALSE,
                         visited |-> {}]},
           c \in {Radio(Release(Release([Ctl EXCEPT !.leds = LedsOff], rxAudioPath),
                                txAudioPath), "disableRtx")} :
            /\ (td.visited = {}) => (rd = "intact")
            /\ ~td.hung
            /\ heap' = td.heap
            /\ mem' = [uaf |-> td.visited # {}, dfree |-> td.dfree, made |-> 0]
            /\ lastCall' = "disable"
            /\ log' = c.log
            /\ paths' = c.paths
            /\ rf' = c.rf
            /\ leds' = c.leds
            /\ rfSqlOpen' = FALSE
            /\ sqlOpen' = FALSE
            /\ enterRx' = FALSE
    /\ active' = FALSE
    /\ UNCHANGED <<status, makePkts, rxAudioPath, txAudioPath, ptt, rssi, dsq, sq>>

\* ----------------------------------------------------------------- update()
HasRequest(l, dir) == \E i \in DOMAIN l : l[i].op = "request" /\ l[i].dir = dir

\* The inputs one update() samples: the settings in the status record, the PTT
\* line at its two reads, the signal strength, the tone squelch signal at its
\* two reads, the arbiter's answers.
Inputs(p2, d2, rr, tr) ==
    [sqlLevel |-> status.sqlLevel, rxToneEn |-> status.rxToneEn,
     txDisable |-> status.txDisable, ptt1 |-> ptt, ptt2 |-> p2, rssi |-> rssi,
     dsq1 |-> dsq, dsq2 |-> d2, rxRes |-> rr, txRes |-> tr]

\* malloc() returning NULL makes the handler write through a null pointer: the
\* call does not return and the action has no next state.
Update ==
    /\ lastCall' = "update"
    /\ UNCHANGED <<rssi, sq, active>>
    /\ \E pk \in {PktLogic(status, heap, makePkts)} :
        /\ pk.ok
        /\ heap' = pk.heap
        /\ makePkts' = pk.makePkts
        /\ mem' = pk.mem
        \* an answer the handler does not ask for takes its default
        /\ \E p2 \in BOOLEAN, d2 \in BOOLEAN,
              rr \in (IF status.opStatus = RX /\ ~sqlOpen THEN PathIds ELSE {0}),
              tr \in (IF ptt /\ status.txDisable = 0 /\ status.opStatus # TX
                      THEN PathIds ELSE {0}) :
            \E c \in {RadioLogic(Ctl, Inputs(p2, d2, rr, tr))} :
                /\ ~c.bad
                /\ HasRequest(c.log, RxRoute) \/ rr = 0
                /\ ptt' = p2
                /\ dsq' = d2
                /\ status' = [pk.status EXCEPT !.opStatus = c.opStatus]
                /\ rfSqlOpen' = c.rfSqlOpen
                /\ sqlOpen' = c.sqlOpen
                /\ enterRx' = c.enterRx
                /\ rxAudioPath' = c.rxAudioPath
                /\ txAudioPath' = c.txAudioPath
                /\ paths' = c.paths
                /\ rf' = c.rf
                /\ leds' = c.leds
                /\ log' = c.log

Environment ==
    PttChange \/ RssiChange \/ DsqChange \/ SetSqlLevel \/ SetRxToneEn \/ SetTxDisable

\* The mode's whole life, any order of calls, with the settings left as they are.
Next == Enable \/ Update \/ Disable \/ PttChange \/ RssiChange \/ DsqChange

Spec == Init /\ [][Next]_vars

\* Update cycles only, under every change of the environment and the settings.
NextRadio == Update \/ Environment

SpecRadio == Init /\ [][NextRadio]_vars

\* The mode's life with the PTT key as the only outside event: any order of
\* calls, the signal strength as it was at construction.
NextPackets == Enable \/ Update \/ Disable \/ PttChange

SpecPackets == Init /\ [][NextPackets]_vars

\* The squelch formula applied to every pair of levels.
InitSquelch ==
    /\ InitCtl
    /\ sq \in [a : 0..MaxSqlLevel, b : 0..MaxSqlLevel, ta : {NULL}, tb : {NULL},
               done : {FALSE}]

ApplySquelch ==
    /\ ~sq.done
    /\ sq' = [sq EXCEPT !.ta = Squelch(sq.a), !.tb = Squelch(sq.b), !.done = TRUE]
    /\ UNCHANGED <<status, ptt, rssi, dsq, log, mem, lastCall, rfSqlOpen, sqlOpen,
                   enterRx, makePkts, active, rxAudioPath, txAudioPath, paths, rf,
                   leds, heap>>

SpecSquelch == InitSquelch /\ [][ApplySquelch]_vars

\* ================================================================ properties
\* A call of the mode has just returned.
AfterCall == lastCall \in {"enable", "update", "disable"}

IsRelease(e, dir) == e.op = "release" /\ e.dir = dir /\ e.ok
IsRequest(e, dir) == e.op = "request" /\ e.dir = dir

\* The packets met following `next` from pkt, in order, up to the end of the list
\* or to the first packet met twice.
RECURSIVE Fwd(_, _, _)
Fwd(h, pkt, seen) ==
    IF pkt = NULL \/ pkt \in seen THEN <<>>
    ELSE <<pkt>> \o Fwd(h, h[pkt].next, seen \cup {pkt})

\* The same following `prev`.
RECURSIVE Bwd(_, _, _)
Bwd(h, pkt, seen) ==
    IF pkt = NULL \/ pkt \in seen THEN <<>>
    ELSE <<pkt>> \o Bwd(h, h[pkt].prev, seen \cup {pkt})

Range(f) == {f[i] : i \in DOMAIN f}

\* ---------------------------------------------------------------------- C1
\* C1: at the end of every enable(), update() and disable() call the operating
\* state is TX if and only if the controller holds a TX audio path.
C1_TxIffTxPathHeld ==
    AfterCall => ((status.opStatus = TX) <=> TxHeld(paths))

\* ---------------------------------------------------------------------- C2
\* C2: over any sequence of update cycles the controller never holds a granted RX
\* audio path and a granted TX audio path at the same time, neither when an
\* update has returned nor after any request or release call inside it.
C2_NeverBothPaths ==
    /\ ~(RxHeld(paths) /\ TxHeld(paths))
    /\ \A i \in DOMAIN log : ~(log[i].rx /\ log[i].tx)

\* An update released the held RX path and was then granted the TX path.
C2_Witness ==
    /\ lastCall = "update"
    /\ TxHeld(paths)
    /\ \E i, j \in DOMAIN log :
          i < j /\ IsRelease(log[i], RxRoute) /\ IsRequest(log[j], TxRoute) /\ log[j].ok

\* ---------------------------------------------------------------------- C3
\* C3: from state RX with the squelch open and the RX audio path held, an update
\* during which PTT is asserted and transmit is not disabled releases the RX
\* path, then requests the TX path with no RX path held any more, and ends in
\* state TX, whatever the signal strength, squelch level and tone squelch are.
C3_TxPreemptsRx ==
    [][(/\ lastCall' = "update"
        /\ status.opStatus = RX
        /\ sqlOpen
        /\ rxAudioPath \in Handles
        /\ paths[rxAudioPath] = RxRoute
        /\ ptt /\ ptt'
        /\ status.txDisable = 0)
       => (/\ status'.opStatus = TX
           /\ ~RxHeld(paths')
           /\ \E i, j \in DOMAIN log' :
                 /\ i < j
                 /\ IsRelease(log'[i], RxRoute)
                 /\ IsRequest(log'[j], TxRoute)
                 /\ ~log'[j].rx)]_vars

\* An update that began by releasing the RX path on its way to TX, the squelch
\* open, and ended in TX.
C3_Witness ==
    /\ lastCall = "update"
    /\ status.opStatus = TX
    /\ sqlOpen
    /\ Len(log) >= 3
    /\ IsRelease(log[1], RxRoute)
    /\ log[2].op = "disableRtx"
    /\ IsRequest(log[3], TxRoute)

\* ---------------------------------------------------------------------- C4
\* C4: an update from OFF with the enter-RX flag set and PTT unasserted yields RX
\* with the flag cleared; an update from RX with PTT asserted and transmit not
\* disabled yields TX; an update from TX with PTT released yields OFF with the
\* enter-RX flag set and sqlOpen false.
C4_OffRxTxOff ==
    [][(lastCall' = "update")
       => (/\ (status.opStatus = OFF /\ enterRx /\ ~ptt)
                => (status'.opStatus = RX /\ ~enterRx')
           /\ (status.opStatus = RX /\ ptt /\ ptt' /\ status.txDisable = 0)
                => (status'.opStatus = TX)
           /\ (status.opStatus = TX /\ ~ptt')
                => (status'.opStatus = OFF /\ enterRx' /\ ~sqlOpen'))]_vars

\* The end of a cycle: an update left TX, releasing the TX path it held.
C4_Witness ==
    /\ lastCall = "update"
    /\ status.opStatus = OFF
    /\ enterRx
    /\ ~sqlOpen
    /\ ~ptt
    /\ Len(log) = 2
    /\ IsRelease(log[1], TxRoute)

\* ---------------------------------------------------------------------- C5
\* C5: in an update that starts in RX the RF squelch flag turns true only if the
\* signal strength is above threshold + 1, turns false only if it is below
\* threshold - 1, and keeps its value for every strength in between.
C5_HysteresisBand ==
    [][(lastCall' = "update" /\ status.opStatus = RX)
       => LET t == Squelch(status.sqlLevel)
          IN  /\ (~rfSqlOpen /\ rfSqlOpen') => (rssi > t + 1)
              /\ (rfSqlOpen /\ ~rfSqlOpen') => (rssi < t - 1)
              /\ (rssi >= t - 1 /\ rssi <= t + 1) => (rfSqlOpen' = rfSqlOpen)]_vars

\* An update in RX left the flag open with the signal just below the threshold.
C5_Witness ==
    /\ lastCall = "update"
    /\ status.opStatus = RX
    /\ log = <<>>
    /\ rfSqlOpen
    /\ rssi = Squelch(status.sqlLevel) - 1

\* ---------------------------------------------------------------------- C6
\* C6: for squelch levels 0..15 the threshold lies in [-127, -61], and the
\* threshold of a level is not above the threshold of a higher level.
C6_ThresholdRangeMonotone ==
    sq.done => (/\ sq.ta \in -127 .. -61
                /\ sq.tb \in -127 .. -61
                /\ (sq.a <= sq.b) => (sq.ta <= sq.tb))

\* The formula applied to the lowest and the highest level.
C6_Witness ==
    sq.done /\ sq.a = 0 /\ sq.b = 15 /\ sq.ta = -127 /\ sq.tb = -61

\* ---------------------------------------------------------------------- C7
\* The update evaluated the squelch in RX and found it open (RF squelch without
\* tone squelch, the tone signal with it).
EffectiveSquelchOpen ==
    \/ status.rxToneEn = 0 /\ rfSqlOpen'
    \/ status.rxToneEn = 1 /\ dsq

\* C7: when an RX audio path request fails, sqlOpen is false after that update and
\* no release is issued for the failed request; every update that starts in RX
\* without the path and with the effective squelch open issues the request.
C7_FailedRxRequest ==
    [][(lastCall' = "update")
       => (/\ \A i \in DOMAIN log' :
                (IsRequest(log'[i], RxRoute) /\ ~log'[i].ok)
                   => (/\ ~sqlOpen'
                       /\ \A j \in DOMAIN log' :
                             ~(j > i /\ log'[j].op = "release" /\ log'[j].h = log'[i].h))
           /\ (status.opStatus = RX /\ ~sqlOpen /\ EffectiveSquelchOpen)
                => HasRequest(log', RxRoute))]_vars

\* ---------------------------------------------------------------------- C8
\* C8: after disable() every packet, with its address records, that was reachable
\* from the status record's queue head is released, and the head is empty.
C8_TeardownEmptiesQueue ==
    [][(lastCall' = "disable")
       => (/\ \A p \in Range(Fwd(heap, status.aprsPkts, {})) :
                 heap'[p].st = "freed" /\ heap'[p].addrs = 0
           /\ status'.aprsPkts = NULL)]_vars

\* ---------------------------------------------------------------------- C9
\* C9: over any sequence of enable(), update() and disable() calls no packet is
\* released twice and none is accessed after its release.
C9_NoAccessAfterRelease ==
    ~mem.uaf /\ ~mem.dfree

\* --------------------------------------------------------------------- C10
\* The queue at `head` is a doubly linked list of n packets.
ValidList(h, head, n) ==
    LET f == Fwd(h, head, {})
    IN  /\ head # NULL
        /\ h[head].prev = NULL
        /\ Len(f) = n
        /\ Cardinality(Range(f)) = n
        /\ \A i \in DOMAIN f : h[f[i]].st = "live"
        /\ h[f[n]].next = NULL
        /\ \A i \in 1 .. (n - 1) : h[h[f[i]].next].prev = f[i]
        /\ Bwd(h, f[n], {}) = [i \in 1 .. n |-> f[n + 1 - i]]

\* C10: after update() has inserted the batch of 10 packets into an empty queue
\* the queue is a valid doubly linked list (head.prev empty, a.next.prev = a,
\* forward traversal visits 10 distinct packets, backward traversal from the last
\* returns to the head) and both counters equal the number of packets.
C10_BatchIsList ==
    [][(lastCall' = "update" /\ makePkts /\ status.aprsPkts = NULL)
       => (/\ ValidList(heap', status'.aprsPkts, 10)
           /\ status'.aprsRecv = Len(Fwd(heap', status'.aprsPkts, {}))
           /\ status'.aprsSaved = Len(Fwd(heap', status'.aprsPkts, {})))]_vars

\* The update that built the batch has returned: ten packets, none released yet.
C10_Witness ==
    /\ lastCall = "update"
    /\ mem.made = 10
    /\ Len(Fwd(heap, status.aprsPkts, {})) = 10
    /\ \A s \in Slots : heap[s].st # "freed"

\* --------------------------------------------------------------------- C11
\* C11: after an enable() the batch is built by the first update() only: an
\* update() leaves makePkts false, only enable() sets it, and an update() that
\* finds it false adds no packet and leaves the queue and both counters as
\* they are.
C11_BatchOncePerEnable ==
    [][/\ (lastCall' = "update") => ~makePkts'
       /\ (~makePkts /\ makePkts') => (lastCall' = "enable")
       /\ (lastCall' = "update" /\ ~makePkts)
            => (/\ heap' = heap
                /\ mem'.made = 0
                /\ status'.aprsPkts = status.aprsPkts
                /\ status'.aprsRecv = status.aprsRecv
                /\ status'.aprsSaved = status.aprsSaved)]_vars

\* A later update() of an enabled mode has returned: it built nothing and the
\* queue still holds the ten packets of the first one.
C11_Witness ==
    /\ lastCall = "update"
    /\ active
    /\ ~makePkts
    /\ mem.made = 0
    /\ status.aprsRecv = 10
    /\ status.aprsSaved = 10
    /\ Len(Fwd(heap, status.aprsPkts, {})) = 10
    /\ \A s \in Slots : heap[s].st # "freed"

\* --------------------------------------------------------------------- C12
\* C12: at the end of every enable(), update() and disable() call
\* rxSquelchOpen() returns true only if the controller holds an RX audio path.
C12_OpenOnlyIfRxHeld ==
    AfterCall => (rxSquelchOpen => RxHeld(paths))

\* --------------------------------------------------------------------- C13
\* C13: after enable() the operating state is OFF, the enter-RX flag is set and
\* the RF squelch and audio-open flags are false, whatever the state before.
C13_EnableResets ==
    (lastCall = "enable")
        => (status.opStatus = OFF /\ enterRx /\ ~rfSqlOpen /\ ~sqlOpen)

\* --------------------------------------------------------------------- C14
\* C14: after disable() the controller holds no RX and no TX audio path, the RF
\* path is deactivated, both indicators are off, and the squelch-open, RF
\* squelch open and enter-RX flags are false.
C14_DisableReleasesAll ==
    (lastCall = "disable")
        => (/\ ~RxHeld(paths)
            /\ ~TxHeld(paths)
            /\ rf = "disableRtx"
            /\ leds = LedsOff
            /\ ~sqlOpen
            /\ ~rfSqlOpen
            /\ ~enterRx)

\* --------------------------------------------------------------------- C15
\* C15: every audio path release the controller issues is for a handle that an
\* earlier request was granted and that has not been released since.
C15_ReleaseOnlyHeld ==
    \A i \in DOMAIN log : (log[i].op = "release") => log[i].ok

\* --------------------------------------------------------------------- C16
IsActivate(e) == e.op \in {"enableRx", "enableTx"}

\* C16: every RF activate command update() issues is preceded in the same update
\* by an RF deactivate command with no other activation in between, and an
\* update that starts in TX ends in TX or OFF, never in RX.
C16_ResetBeforeActivate ==
    [][(lastCall' = "update")
       => (/\ \A i \in DOMAIN log' :
                IsActivate(log'[i])
                   => \E j \in 1 .. (i - 1) :
                         /\ log'[j].op = "disableRtx"
                         /\ \A k \in (j + 1) .. (i - 1) : ~IsActivate(log'[k])
           /\ (status.opStatus = TX) => (status'.opStatus \in {TX, OFF}))]_vars

\* One update went from OFF through RX to TX: it activated receive and then
\* transmit.
C16_Witness ==
    /\ lastCall = "update"
    /\ status.opStatus = TX
    /\ \E i, j \in DOMAIN log :
          i < j /\ log[i].op = "enableRx" /\ log[j].op = "enableTx"

\* --------------------------------------------------------------------- C17
\* C17: at the end of every enable(), update() and disable() call a held RX audio
\* path implies the RF stage is set to receive and a held TX audio path implies
\* it is set to transmit.
C17_PathMatchesRf ==
    AfterCall => (/\ RxHeld(paths) => (rf = "enableRx")
                  /\ TxHeld(paths) => (rf = "enableTx"))

C19_TxInhibit ==
    [][(/\ lastCall' = "update"
        /\ status.txDisable # 0
        /\ status.opStatus # TX)
       => (/\ ~HasRequest(log', TxRoute)
           /\ \A i \in DOMAIN log' : log'[i].op # "enableTx"
           /\ \A i \in DOMAIN log' :
                 (log'[i].op = "release")
                    => (status.opStatus = RX /\ sqlOpen /\ ~EffectiveSquelchOpen)
           /\ (RxHeld(paths) /\ EffectiveSquelchOpen) => RxHeld(paths')
           /\ status'.opStatus # TX)]_vars

\* With transmit disabled and the PTT key pressed an update has left the
\* controller in RX, the RX audio path held.
C19_Witness ==
    /\ lastCall = "update"
    /\ status.txDisable = 1
    /\ ptt
    /\ status.opStatus = RX
    /\ RxHeld(paths)
    /\ log = <<>>

\* --------------------------------------------------------------------- C20
\* C20: while the mode is enabled, state OFF always has the enter-RX flag set,
\* and an update during which PTT stays unasserted takes OFF to RX, keeps RX,
\* and takes TX to OFF with the flag set: RX is reached within two updates from
\* any state, is kept, and is re-entered on the update after the one that left
\* TX.
C20_RxWhilePttIdle ==
    [][/\ (active' /\ status'.opStatus = OFF) => enterRx'
       /\ (lastCall' = "update" /\ active /\ ~ptt /\ ~ptt')
            => (/\ (status.opStatus = OFF) => (status'.opStatus = RX)
                /\ (status.opStatus = RX) => (status'.opStatus = RX)
                /\ (status.opStatus = TX)
                     => (status'.opStatus = OFF /\ enterRx'))]_vars

\* An update of the enabled mode has entered RX from OFF, PTT unasserted.
C20_Witness ==
    /\ lastCall = "update"
    /\ active
    /\ ~ptt
    /\ status.opStatus = RX
    /\ Len(log) = 2
    /\ log[1].op = "disableRtx"
    /\ log[2].op = "enableRx"


=============================================================================
